---- MODULE Spec2Model ----
(***************************************************************************)
(* The Home page of the website-name generator (src/src/pages/Home.tsx):   *)
(* the four React state values, the Generate button, the asynchronous      *)
(* generateDomains handler with its single await on the generation         *)
(* backend, the transformation of the response text into the suggestion    *)
(* list, and the registrar URL template.                                   *)
(*                                                                         *)
(* Strings are sequences of one-character strings.  A handler runs to      *)
(* completion up to its first await (JavaScript's event loop), so the      *)
(* click handler up to the await is one action and each continuation       *)
(* after the await is another.                                             *)
(***************************************************************************)
EXTENDS Naturals, Sequences, FiniteSets

\* ------------------------------------------------------------------ bounds

\* Longest backend response text, in characters.
MaxLen == 3
\* Number of clicks on the Generate control in one session.
MaxClicks == 2

\* ------------------------------------------------------------ the alphabet

\* Characters a backend response is made of: an upper-case letter, a blank,
\* a line break and a URL-reserved character.
Chars == {"A", " ", "\n", "&"}
\* The characters String.prototype.trim strips (those of the alphabets).
Whitespace == {" ", "\n"}

RECURSIVE SeqsUpTo(_, _)
SeqsUpTo(S, n) ==
    IF n = 0 THEN {<<>>}
    ELSE LET shorter == SeqsUpTo(S, n - 1)
         IN  shorter \cup {Append(s, c) : s \in {t \in shorter : Len(t) = n - 1}, c \in S}

Responses == SeqsUpTo(Chars, MaxLen)
\* What the user types into the textarea: nothing, blanks only, a word, a
\* word after a blank.
Descriptions == {<<>>, <<" ">>, <<"x">>, <<" ", "x">>}

\* What the awaited backend call can throw: an Error with a message, an
\* Error whose message is the empty string, and a value that is no Error.
Thrown ==
    { [isError |-> TRUE,  message |-> "Network timeout"],
      [isError |-> TRUE,  message |-> ""],
      [isError |-> FALSE, message |-> "rejected with a plain value"] }

\* ------------------------------------------------------- string functions

RECURSIVE TrimStart(_)
TrimStart(s) ==
    IF s = <<>> THEN s
    ELSE IF s[1] \in Whitespace THEN TrimStart(Tail(s)) ELSE s

RECURSIVE TrimEnd(_)
TrimEnd(s) ==
    IF s = <<>> THEN s
    ELSE IF s[Len(s)] \in Whitespace THEN TrimEnd(SubSeq(s, 1, Len(s) - 1)) ELSE s

\* String.prototype.trim
Trim(s) == TrimEnd(TrimStart(s))

IsBlankNoTrim(s) == s = <<>>

\* !description.trim()
IsBlank(s) == Trim(s) = <<>>

\* String.prototype.split('\n'): scan for the first line break, emit what is
\* before it, go on with what is after it.
RECURSIVE Split(_)
Split(s) ==
    IF \E i \in 1..Len(s) : s[i] = "\n"
    THEN LET i == CHOOSE k \in 1..Len(s) :
                    /\ s[k] = "\n"
                    /\ \A j \in 1..(k - 1) : s[j] # "\n"
         IN  <<SubSeq(s, 1, i - 1)>> \o Split(SubSeq(s, i + 1, Len(s)))
    ELSE <<s>>

LowerChar(c) == IF c = "A" THEN "a" ELSE c

\* String.prototype.toLowerCase
ToLowerCase(s) == [i \in 1..Len(s) |-> LowerChar(s[i])]

KeepLineNonEmpty(name) == name # <<>>

\* the filter's predicate: name => name.trim()
KeepLine(name) == Trim(name) # <<>>

\* the fixed extension list attached to every suggestion
Extensions ==
    << <<".", "c", "o", "m">>, <<".", "i", "o">>, <<".", "c", "o">>,
       <<".", "n", "e", "t">>, <<".", "o", "r", "g">>, <<".", "a", "i">> >>

\* result.response.text().split('\n').filter(...).map(...)
Transform(text) ==
    LET nameList == SelectSeq(Split(text), KeepLine)
    IN  [i \in 1..Len(nameList) |->
            [name |-> ToLowerCase(nameList[i]), extensions |-> Extensions]]

\* the prompt template with the raw Description embedded
Prompt(d) ==
    <<"Generate 5 creative, memorable, and brandable website domain names based on this description: ">>
    \o d \o
    <<". Return only the domain names without extensions, one per line.">>

UrlTemplate == <<"https://www.godaddy.com/domainsearch/find", "?", "domainToCheck", "=">>

getGoDaddyUrlNoExtension(domain, extension) == UrlTemplate \o domain

\* `https://www.godaddy.com/domainsearch/find?domainToCheck=${domain}${extension}`
getGoDaddyUrl(domain, extension) == UrlTemplate \o domain \o extension

ConfigMessage == "API key not configured. Please add your Gemini API key to continue."
GenericMessage == "An error occurred while generating domain names"

\* the Error thrown when genAI is missing
ConfigError == [isError |-> TRUE, message |-> ConfigMessage]

\* err instanceof Error ? err.message : '...'
CatchMessage(err) == IF err.isError THEN err.message ELSE GenericMessage

\* ------------------------------------------------------------------ state

VARIABLES
    description,  \* useState(''): the textarea's text
    domains,      \* useState([]): the suggestion list
    loading,      \* useState(false): the in-progress flag
    error,        \* useState(null): <<>> is null, <<m>> is the message m
    genAI,        \* whether the imported backend client is set
    inflight,     \* the prompts of the generateContent calls not yet settled
    last,         \* how the latest attempt ended (none while it is pending)
    clicks,       \* clicks on the Generate control so far
    calls,        \* generateContent invocations so far
    failures      \* attempts that ended in the catch block so far

vars == <<description, domains, loading, error, genAI, inflight, last,
          clicks, calls, failures>>

\* the err field of an outcome that threw nothing
Nothing == [isError |-> FALSE, message |-> ""]

NoOutcome == [kind |-> "none", text |-> <<>>, err |-> Nothing]

Init ==
    /\ description = <<>>
    /\ domains = <<>>
    /\ loading = FALSE
    /\ error = <<>>
    /\ genAI \in BOOLEAN
    /\ inflight = <<>>
    /\ last = NoOutcome
    /\ clicks = 0
    /\ calls = 0
    /\ failures = 0

\* ---------------------------------------------------------------- actions

\* onChange={(e) => setDescription(e.target.value)}
SetDescription(d) ==
    /\ d # description
    /\ description' = d
    /\ UNCHANGED <<domains, loading, error, genAI, inflight, last,
                   clicks, calls, failures>>

ButtonDisabledNoLoading == IsBlank(description)

\* disabled={loading || !description.trim()}
ButtonDisabled == loading \/ IsBlank(description)

BackendMissingNever == FALSE

\* if (!genAI)
BackendMissing == ~genAI

\* the catch and finally blocks, run for the thrown value err
CatchFinally(err) ==
    /\ error' = <<CatchMessage(err)>>
    /\ domains' = <<>>
    /\ loading' = FALSE
    /\ failures' = failures + 1

StartCallKeepError ==
    /\ loading' = TRUE
    /\ inflight' = Append(inflight, Prompt(description))
    /\ calls' = calls + 1
    /\ last' = NoOutcome
    /\ UNCHANGED <<error, domains, failures>>

\* setLoading(true); setError(null); ...; await model.generateContent(prompt)
StartCall ==
    /\ loading' = TRUE
    /\ error' = <<>>
    /\ inflight' = Append(inflight, Prompt(description))
    /\ calls' = calls + 1
    /\ last' = NoOutcome
    /\ UNCHANGED <<domains, failures>>

\* generateDomains, from its entry to its first await or its return
generateDomains ==
    IF IsBlank(description)
    THEN UNCHANGED <<domains, loading, error, inflight, last, calls, failures>>
    ELSE IF BackendMissing
         THEN /\ CatchFinally(ConfigError)
              /\ last' = [kind |-> "config", text |-> <<>>, err |-> ConfigError]
              /\ UNCHANGED <<inflight, calls>>
         ELSE StartCall

\* a click on the Generate control: onClick runs only when it is enabled
ClickGenerate ==
    /\ clicks < MaxClicks
    /\ clicks' = clicks + 1
    /\ UNCHANGED <<description, genAI>>
    /\ IF ButtonDisabled
       THEN UNCHANGED <<domains, loading, error, inflight, last, calls, failures>>
       ELSE generateDomains

Remove(s, i) == SubSeq(s, 1, i - 1) \o SubSeq(s, i + 1, Len(s))

\* the awaited call i returns the response text: lines 33-40, then finally
Resolve(i, text) ==
    /\ i \in DOMAIN inflight
    /\ inflight' = Remove(inflight, i)
    /\ domains' = Transform(text)
    /\ loading' = FALSE
    /\ last' = [kind |-> "text", text |-> text, err |-> Nothing]
    /\ UNCHANGED <<description, error, genAI, clicks, calls, failures>>

RejectRetry(i, err) ==
    /\ i \in DOMAIN inflight
    /\ calls < MaxClicks + 1
    /\ calls' = calls + 1
    /\ failures' = failures + 1
    /\ last' = [kind |-> "throw", text |-> <<>>, err |-> err]
    /\ UNCHANGED <<description, domains, loading, error, genAI, inflight, clicks>>

RejectNoFinally(i, err) ==
    /\ i \in DOMAIN inflight
    /\ inflight' = Remove(inflight, i)
    /\ error' = <<CatchMessage(err)>>
    /\ domains' = <<>>
    /\ failures' = failures + 1
    /\ last' = [kind |-> "throw", text |-> <<>>, err |-> err]
    /\ UNCHANGED <<description, loading, genAI, clicks, calls>>

\* the awaited call i throws err: the catch block, then finally
Reject(i, err) ==
    /\ i \in DOMAIN inflight
    /\ inflight' = Remove(inflight, i)
    /\ CatchFinally(err)
    /\ last' = [kind |-> "throw", text |-> <<>>, err |-> err]
    /\ UNCHANGED <<description, genAI, clicks, calls>>

Next ==
    \/ \E d \in Descriptions : SetDescription(d)
    \/ ClickGenerate
    \/ \E i \in 1..MaxClicks, text \in Responses : Resolve(i, text)
    \/ \E i \in 1..MaxClicks, err \in Thrown : Reject(i, err)

Spec == Init /\ [][Next]_vars

\* ----------------------------------------------------------- the claims

\* "empty or whitespace-only", said without trim
AllWhitespace(s) == \A i \in DOMAIN s : s[i] \in Whitespace

\* the latest attempt ended in the catch block
Failed == last.kind \in {"config", "throw"}

\* C1: after a started generation attempt ends in failure (missing
\* configuration or any thrown value), SuggestionList is empty and
\* GenerationError is a non-empty message.
C1_FailureLeavesMessage ==
    Failed => /\ domains = <<>>
              /\ error # <<>>
              /\ error[1] # ""

\* C2: a trigger while Description is empty or whitespace-only issues no
\* network call and leaves SuggestionList, GenerationError and the
\* in-progress flag as they were.
C2_BlankTriggerIsNoOp ==
    [][(clicks' = clicks + 1 /\ AllWhitespace(description))
         => UNCHANGED <<domains, error, loading, inflight, calls>>]_vars

\* every click so far was ignored although the backend is configured, and
\* the Description is whitespace-only
C2_Witness ==
    /\ genAI
    /\ clicks > 0
    /\ calls = 0
    /\ description = <<" ">>

\* C3: with the backend not configured no network call is ever issued, the
\* SuggestionList is empty in every state, the flag is never left set, and
\* a trigger with a non-blank Description settles with the configuration
\* message.
C3_UnconfiguredFailsBeforeCall ==
    [][~genAI =>
         /\ calls' = 0
         /\ inflight' = <<>>
         /\ domains' = <<>>
         /\ ~loading'
         /\ (clicks' = clicks + 1 /\ ~AllWhitespace(description))
              => (error' = <<ConfigMessage>> /\ failures' = failures + 1)]_vars

C3_Witness ==
    /\ ~genAI
    /\ failures > 0
    /\ last.kind = "config"

\* C5: at most one generation call is outstanding at any time.
C5_AtMostOneOutstanding == Len(inflight) <= 1

\* a call is outstanding and a second click has happened
C5_Witness ==
    /\ Len(inflight) = 1
    /\ clicks = 2
    /\ calls = 1
    /\ ~AllWhitespace(description)

\* C6: after a generation call succeeds, GenerationError is null and
\* SuggestionList is the transformation of that response alone.
C6_SuccessReplacesAndClears ==
    last.kind = "text" =>
        /\ error = <<>>
        /\ domains = Transform(last.text)
        /\ ~loading

\* a success, with suggestions, after an earlier failed attempt
C6_Witness ==
    /\ last.kind = "text"
    /\ failures > 0
    /\ domains # <<>>

\* C9: the number of network calls grows by exactly one at each accepted
\* trigger (enabled control, non-blank Description, configured backend) and
\* at no other step: a failed call is not retried.
C9_OneCallPerAcceptedTrigger ==
    [][calls' = calls + (IF /\ clicks' = clicks + 1
                            /\ ~loading
                            /\ ~AllWhitespace(description)
                            /\ genAI
                         THEN 1 ELSE 0)]_vars

\* two calls issued, one of them failed, nothing outstanding
C9_Witness ==
    /\ calls = 2
    /\ failures > 0
    /\ last.kind = "throw"
    /\ inflight = <<>>

\* C10: the in-progress flag is true exactly while a started attempt has
\* not settled.
C10_LoadingIffOutstanding == loading <=> (inflight # <<>>)

\* an attempt settled by a backend failure, and the flag is down again
C10_Witness ==
    /\ last.kind = "throw"
    /\ ~loading
    /\ calls > 0

\* ------------------------------------------ C4: the response transformation

\* where the lines of t start: at its first character and after each break
LineStarts(t) == {1} \cup {i + 1 : i \in {k \in 1..Len(t) : t[k] = "\n"}}

\* the place of the break (or of the end of t) that closes the line at s
LineStop(t, s) ==
    CHOOSE j \in s..(Len(t) + 1) :
        /\ (j = Len(t) + 1 \/ t[j] = "\n")
        /\ \A k \in s..(j - 1) : t[k] # "\n"

LineAt(t, s) == SubSeq(t, s, LineStop(t, s) - 1)

\* the starts of the lines that are non-empty after trimming
UsableStarts(t) == {s \in LineStarts(t) : ~AllWhitespace(LineAt(t, s))}

\* the k-th usable line of t, in the order of the text
UsableLine(t, k) ==
    LineAt(t, CHOOSE s \in UsableStarts(t) :
                  Cardinality({u \in UsableStarts(t) : u < s}) = k - 1)

\* C4: after a success the SuggestionList holds one entry per line of the
\* response that is non-empty after trimming, in the order of the text; the
\* entry's name is the whole line lower-cased and its extensions are .com,
\* .io, .co, .net, .org, .ai in that order.
C4_ListIsUsableLinesLowerCased ==
    last.kind = "text" =>
        /\ Len(domains) = Cardinality(UsableStarts(last.text))
        /\ \A k \in 1..Len(domains) :
             LET line == UsableLine(last.text, k)
             IN  /\ Len(domains[k].name) = Len(line)
                 /\ \A i \in 1..Len(line) :
                      domains[k].name[i] = (IF line[i] = "A" THEN "a" ELSE line[i])
                 /\ domains[k].extensions =
                      << <<".", "c", "o", "m">>, <<".", "i", "o">>,
                         <<".", "c", "o">>, <<".", "n", "e", "t">>,
                         <<".", "o", "r", "g">>, <<".", "a", "i">> >>

\* a response of two lines, the first blank: one entry, lower-cased
C4_Witness ==
    /\ last.kind = "text"
    /\ last.text = <<" ", "\n", "A">>
    /\ Len(domains) = 1
    /\ domains[1].name = <<"a">>

\* ------------------------------------------------- C7, C8: the URL template

\* the href of every extension of every rendered suggestion
RenderedLinks ==
    {[name |-> domains[k].name, ext |-> Extensions[e],
      href |-> getGoDaddyUrl(domains[k].name, Extensions[e])] :
        k \in DOMAIN domains, e \in DOMAIN Extensions}

\* s cut at each occurrence of sep
RECURSIVE CutAt(_, _)
CutAt(s, sep) ==
    IF \E i \in 1..Len(s) : s[i] = sep
    THEN LET i == CHOOSE k \in 1..Len(s) :
                    s[k] = sep /\ \A j \in 1..(k - 1) : s[j] # sep
         IN  <<SubSeq(s, 1, i - 1)>> \o CutAt(SubSeq(s, i + 1, Len(s)), sep)
    ELSE <<s>>

\* the query of a URL: what follows its first "?"
QueryOf(url) ==
    LET i == CHOOSE k \in 1..Len(url) : url[k] = "?" /\ \A j \in 1..(k - 1) : url[j] # "?"
    IN  SubSeq(url, i + 1, Len(url))

\* the key=value pairs of a query, cut at "&"
QueryParams(url) == CutAt(QueryOf(url), "&")

\* a percent-escape read back as the character it stands for
Unescape(c) == IF c = "%20" THEN " " ELSE IF c = "%26" THEN "&" ELSE c

\* the decoded value of the pair p, key=value
ParamValue(p) ==
    LET parts == CutAt(p, "=")
        raw == IF Len(parts) < 2 THEN <<>> ELSE SubSeq(p, Len(parts[1]) + 2, Len(p))
    IN  [i \in 1..Len(raw) |-> Unescape(raw[i])]

\* C7: every rendered href carries name+extension percent-escaped: it holds
\* no raw blank, its query is the single parameter domainToCheck, and that
\* parameter decodes back to exactly name+extension.
C7_HrefEscapesNameAndExtension ==
    \A l \in RenderedLinks :
        /\ \A i \in 1..Len(l.href) : l.href[i] # " "
        /\ Len(QueryParams(l.href)) = 1
        /\ ParamValue(QueryParams(l.href)[1]) = l.name \o l.ext

\* names that overlap the extensions of n: n followed by the beginning of
\* an extension, and the beginnings of n
Overlapping(n) ==
    UNION {{n \o SubSeq(Extensions[e], 1, j) : j \in 0..Len(Extensions[e])} :
              e \in DOMAIN Extensions}
    \cup {SubSeq(n, 1, j) : j \in 0..Len(n)}

\* C8: two (name, extension) pairs with the same URL are the same pair, for
\* the names on the page and for the names that overlap their extensions.
C8_UrlInjective ==
    \A k \in DOMAIN domains, e1 \in DOMAIN Extensions, e2 \in DOMAIN Extensions :
        \A n2 \in Overlapping(domains[k].name)
                    \cup {domains[j].name : j \in DOMAIN domains} :
            getGoDaddyUrl(domains[k].name, Extensions[e1]) = getGoDaddyUrl(n2, Extensions[e2])
                => (n2 = domains[k].name /\ e1 = e2)

\* two suggestions with different names are on the page
C8_Witness ==
    /\ Len(domains) = 2
    /\ domains[1].name # domains[2].name

====
